---- MODULE Spec2Model ----
(***************************************************************************)
(* Block-sparse matrix multiplication scheduling                           *)
(* (python/triton/ops/blocksparse/matmul.py).                              *)
(*                                                                         *)
(* The module models                                                       *)
(*   - _matmul.load_balance and _matmul.make_dxx_lut as operators,         *)
(*     computed the way the code computes them (0-based python indices,    *)
(*     slice assignment, torch.empty / torch.zeros buffers);               *)
(*   - _matmul.get_locks and the process-wide locks dictionary;            *)
(*   - the matmul scheduler object: __init__, make_lut (the LUT cache),    *)
(*     __call__, _validate_inputs, forward and backward;                   *)
(*   - a launch of _dsd_kernel / _dds_kernel over a make_dxx_lut table:    *)
(*     one program per header row, walking the table and storing a tile.   *)
(*                                                                         *)
(* Each group has its own specification over the shared variables:         *)
(*   SpecLB, SpecLut, SpecLocks, SpecSched, SpecCache, SpecKernel.         *)
(***************************************************************************)
EXTENDS Integers, Sequences, FiniteSets, TLC

VARIABLES
    sizes,      \* load_balance: the argument (a sequence of reduction lengths)
    lb,         \* load_balance: [state |-> "pending"] or the outcome of the call
    layout,     \* make_dxx_lut: the layout argument, layout[z][h][w] \in {0,1}
    block,      \* make_dxx_lut: the block argument
    trans,      \* make_dxx_lut: the trans argument
    lut,        \* make_dxx_lut: [state |-> "pending"] or the outcome of the call
    locks,      \* _matmul.locks: device -> buffer ([present, id, size])
    nalloc,     \* number of torch.zeros allocations made by get_locks (buffer ids)
    lastLock,   \* the last get_locks call: arguments, dictionary before, buffer returned
    requested,  \* history: per device, the sizes get_locks was called with
    sched,      \* the matmul instance (or the outcome of a failed construction)
    lut_cache,  \* matmul.lut_cache: key -> [present, value]
    builds,     \* per key, how many times make_lut ran the LUT builders
    lastOp,     \* the last make_lut / __call__ on the instance and its outcome
    pid0,       \* kernel launch: per program id (grid axis 0), position and registers
    C           \* kernel launch: the output tensor, tile (depth, column) -> content

vars == <<sizes, lb, layout, block, trans, lut, locks, nalloc, lastLock, requested,
          sched, lut_cache, builds, lastOp, pid0, C>>

(***************************************************************************)
(* Bounds of the model                                                     *)
(***************************************************************************)
\* load_balance inputs: up to MaxCols columns of sizes 0..MaxSmall, and
\* up to MaxBigCols columns of sizes 0..MaxSize (MaxSize > 16 makes
\* ceil(seg_max / 4) exceed 4).
MaxCols == 5
MaxSmall == 5
MaxBigCols == 2
MaxSize == 17

\* make_dxx_lut inputs: layouts of 1..MaxZ depth slices, 1..MaxH rows and
\* 1..MaxW columns of blocks, with at most MaxNnz populated blocks.
MaxZ == 2
MaxH == 2
MaxW == 2
MaxNnz == 3

\* get_locks is called with sizes 0..MaxLockSize.
MaxLockSize == 3

\* The LUT builders of one scheduler run at most MaxBuilds times per key.
MaxBuilds == 2

(***************************************************************************)
(* Helpers: integers, sequences, python slices                             *)
(***************************************************************************)
Max2(a, b) == IF a >= b THEN a ELSE b

Min2(a, b) == IF a <= b THEN a ELSE b

B2I(b) == IF b THEN 1 ELSE 0

RECURSIVE SeqSum(_)
SeqSum(s) == IF Len(s) = 0 THEN 0 ELSE s[1] + SeqSum(Tail(s))

RECURSIVE SeqMax(_)
SeqMax(s) == IF Len(s) = 1 THEN s[1] ELSE Max2(s[1], SeqMax(Tail(s)))

\* Sequences over S of length lo..hi
SeqsOf(S, lo, hi) == UNION {[1..n -> S] : n \in lo..hi}

\* a[lo:hi] = v with python's 0-based, end-exclusive, clipped slice
SetSlice(a, lo, hi, v) ==
    [k \in 1..Len(a) |-> IF lo < k /\ k <= hi THEN v ELSE a[k]]

\* a[i] = v and a[i] += v with a python 0-based index
SetAt(a, i, v) == [k \in 1..Len(a) |-> IF k = i + 1 THEN v ELSE a[k]]

AddAt(a, i, v) == [k \in 1..Len(a) |-> IF k = i + 1 THEN a[k] + v ELSE a[k]]

\* triton.cdiv
cdiv(x, y) == (x + y - 1) \div y

(***************************************************************************)
(* _matmul.load_balance (matmul.py 348-394)                                *)
(***************************************************************************)
\* The content of a torch.empty buffer before it is written.
Uninit == 0 - 1

\* sizes.max() raises on an empty tensor, sizes[sizes != 0].min() raises when
\* no entry is nonzero (min() of an empty tensor).
LBRaises(s) == Len(s) = 0 \/ \A i \in 1..Len(s) : s[i] = 0

\* Variant of SegMax: the heuristic the code keeps commented out (lines
\* 355-358), under which a column can exceed seg_max.
SegMaxHeuristic(s) ==
    LET mx == SeqMax(s)
        mn == CHOOSE m \in {s[i] : i \in 1..Len(s)} \ {0} :
                  \A i \in 1..Len(s) : s[i] # 0 => m <= s[i]
    IN  IF mx > 2 * mn THEN Max2(cdiv(mx, 4), 2 * mn) ELSE mx

\* Variant of SegMax: the smallest nonzero size instead of the largest.
SegMaxAsMin(s) ==
    CHOOSE m \in {s[i] : i \in 1..Len(s)} \ {0} :
        \A i \in 1..Len(s) : s[i] # 0 => m <= s[i]

\* max_size = sizes.max(); seg_max = max_size
SegMax(s) == SeqMax(s)

\* seg_min = max(triton.cdiv(seg_max, 4), 4)
SegMin(seg_max) == Max2(cdiv(seg_max, 4), 4)

\* div = sizes // seg_max ; rem = sizes % seg_max
Div(size, seg_max) == size \div seg_max

\* Variant of Rem: the quotient in place of the remainder.
RemAsDiv(size, seg_max) == size \div seg_max

Rem(size, seg_max) == size % seg_max

\* packs = div + (sizes < seg_min).long() + (rem >= seg_min).long()
Packs(size, seg_max, seg_min) ==
    Div(size, seg_max) + B2I(size < seg_min) + B2I(Rem(size, seg_max) >= seg_min)

\* width = packs.sum()
Width(s, seg_max, seg_min) ==
    SeqSum([i \in 1..Len(s) |-> Packs(s[i], seg_max, seg_min)])

\* if d > 1 or (d == 1 and r >= seg_min)
NeedsLock(d, r, seg_min) == d > 1 \/ (d = 1 /\ r >= seg_min)

\* One iteration of the loop over the columns (lines 373-391); i is the
\* python index of the column, st the loop-carried state.
LBColumn(st, i, s, seg_max, seg_min) ==
    LET d       == Div(s[i + 1], seg_max)
        r       == Rem(s[i + 1], seg_max)
        isempty == s[i + 1] < seg_min
        current == st.current
        last    == current + d + B2I(r >= seg_min) + B2I(isempty)
        locked  == NeedsLock(d, r, seg_min)
        nlocks  == IF locked THEN st.nlocks + 1 ELSE st.nlocks
        seg1    == SetSlice(st.segments, current, current + d, seg_max)
        seg2    == IF r < seg_min /\ ~isempty
                   THEN AddAt(seg1, current + d - 1, r) ELSE seg1
        seg3    == IF r >= seg_min \/ isempty
                   THEN SetAt(seg2, current + d, r) ELSE seg2
    IN  [segments |-> seg3,
         column   |-> SetSlice(st.column, current, last, st.col_idx),
         lockid   |-> IF locked THEN SetSlice(st.lockid, current, last, nlocks)
                      ELSE st.lockid,
         maxid    |-> IF locked THEN SetSlice(st.maxid, current, last, last - current)
                      ELSE st.maxid,
         nlocks   |-> nlocks,
         current  |-> last,
         col_idx  |-> st.col_idx + 1]

RECURSIVE LBLoop(_, _, _, _, _)
LBLoop(st, i, s, seg_max, seg_min) ==
    IF i >= Len(s) THEN st
    ELSE LBLoop(LBColumn(st, i, s, seg_max, seg_min), i + 1, s, seg_max, seg_min)

\* offsets = zeros_like(segments); offsets[1:] = cumsum(segments[:-1])
Offsets(segments) ==
    [k \in 1..Len(segments) |-> SeqSum(SubSeq(segments, 1, k - 1))]

load_balance(s) ==
    IF LBRaises(s) THEN [state |-> "raised"]
    ELSE
      LET seg_max == SegMax(s)
          seg_min == SegMin(seg_max)
          width   == Width(s, seg_max, seg_min)
          st0     == [segments |-> [k \in 1..width |-> Uninit],
                      column   |-> [k \in 1..width |-> Uninit],
                      lockid   |-> [k \in 1..width |-> 0],
                      maxid    |-> [k \in 1..width |-> 0],
                      nlocks   |-> 0,
                      current  |-> 0,
                      col_idx  |-> 0]
          st      == LBLoop(st0, 0, s, seg_max, seg_min)
      IN  [state    |-> "returned",
           segments |-> st.segments,
           column   |-> st.column,
           lockid   |-> st.lockid,
           maxid    |-> st.maxid,
           offsets  |-> Offsets(st.segments)]

(***************************************************************************)
(* _matmul.make_dxx_lut (matmul.py 411-497)                                *)
(*                                                                         *)
(* A layout is a sequence of depth slices, each a sequence of rows, each a *)
(* sequence of 0/1 entries: L[z + 1][h + 1][w + 1] is layout[z, h, w].     *)
(***************************************************************************)
\* step = 16 (make_lut)
Step == 16

Depth(L) == Len(L)

Rows(L) == Len(L[1])

Cols(L) == Len(L[1][1])

RECURSIVE Flatten(_)
Flatten(ss) == IF Len(ss) = 0 THEN <<>> ELSE ss[1] \o Flatten(Tail(ss))

\* layout[z, :, :].sum()
SliceSum(L, z) == SeqSum(Flatten(L[z + 1]))

\* torch.sum(layout[z, :, :], 1) if trans else torch.sum(layout[z, :, :], 0)
SliceSizes(L, z, tr) ==
    IF tr
    THEN [h \in 1..Rows(L) |-> SeqSum(L[z + 1][h])]
    ELSE [w \in 1..Cols(L) |-> SeqSum([h \in 1..Rows(L) |-> L[z + 1][h][w]])]

\* z_lockid[z_lockid > 0] += current_maxid
ShiftLocks(z_lockid, current_maxid) ==
    [k \in 1..Len(z_lockid) |->
        IF z_lockid[k] > 0 THEN z_lockid[k] + current_maxid ELSE z_lockid[k]]

\* One iteration of the loop over the depth slices (lines 423-439).
DxxSlice(acc, z, L, tr) ==
    LET res == load_balance(SliceSizes(L, z, tr))
    IN  IF acc.raised \/ res.state = "raised" THEN [acc EXCEPT !.raised = TRUE]
        ELSE
          LET z_lockid == ShiftLocks(res.lockid, acc.current_maxid)
          IN  [raised         |-> FALSE,
               segments       |-> acc.segments \o res.segments,
               column         |-> acc.column \o res.column,
               depth          |-> acc.depth \o [k \in 1..Len(res.segments) |-> z],
               maxid          |-> acc.maxid \o res.maxid,
               offsets        |-> acc.offsets \o
                                  [k \in 1..Len(res.offsets) |->
                                      acc.current_offset + res.offsets[k]],
               lockid         |-> acc.lockid \o z_lockid,
               current_maxid  |-> SeqMax(z_lockid),
               current_offset |-> acc.current_offset + SliceSum(L, z)]

RECURSIVE DxxLoop(_, _, _, _)
DxxLoop(acc, z, L, tr) ==
    IF z >= Depth(L) THEN acc ELSE DxxLoop(DxxSlice(acc, z, L, tr), z + 1, L, tr)

\* The coordinates <<z, a, b>> (0-based) in row-major order of a Z x A x B grid.
Coords(Z, A, B) ==
    [n \in 1..(Z * A * B) |->
        <<(n - 1) \div (A * B), ((n - 1) % (A * B)) \div B, (n - 1) % B>>]

\* layout.nonzero() if trans else layout.transpose(1, 2).nonzero()
Nonzero(L, tr) ==
    IF tr
    THEN SelectSeq(Coords(Depth(L), Rows(L), Cols(L)),
                   LAMBDA p : L[p[1] + 1][p[2] + 1][p[3] + 1] > 0)
    ELSE SelectSeq(Coords(Depth(L), Cols(L), Rows(L)),
                   LAMBDA p : L[p[1] + 1][p[3] + 1][p[2] + 1] > 0)

\* The row-major rank (0-based, counted across depth slices) of the populated
\* block at layout[z, h, w]: what lines 464-470 number the blocks with.
BlockRank(L, z, h, w) ==
    Len(SelectSeq(Coords(Depth(L), Rows(L), Cols(L)),
                  LAMBDA p : /\ L[p[1] + 1][p[2] + 1][p[3] + 1] > 0
                             /\ \/ p[1] < z
                                \/ p[1] = z /\ p[2] < h
                                \/ p[1] = z /\ p[2] = h /\ p[3] < w))

\* Variant of Widx: the blocks numbered in the order of nnz in both
\* orientations.
WidxInNnzOrder(L, tr, nnz) == [n \in 1..Len(nnz) |-> n - 1]

\* widx (lines 460-471)
Widx(L, tr, nnz) ==
    IF tr THEN [n \in 1..Len(nnz) |-> n - 1]
    ELSE [n \in 1..Len(nnz) |-> BlockRank(L, nnz[n][1], nnz[n][3], nnz[n][2])]

\* x = v.clone(); x[1:] -= v[:-1]
Deltas(v) == [n \in 1..Len(v) |-> IF n = 1 THEN v[n] ELSE v[n] - v[n - 1]]

\* x.view(-1, 1).repeat(1, div); x[:, 1:] = fine; x[:, 0] -= (div - 1) * fine
Expand(x, div, fine) ==
    [n \in 1..Len(x) |->
        [j \in 1..div |-> IF j = 1 THEN x[n] - (div - 1) * fine ELSE fine]]

\* x[offsets[segments > 0], 0] = v[offsets[segments > 0]]
SetStarts(x, v, offsets, segments) ==
    LET starts == {offsets[k] : k \in {j \in 1..Len(segments) : segments[j] > 0}}
    IN  [n \in 1..Len(x) |->
            [j \in 1..Len(x[n]) |->
                IF j = 1 /\ (n - 1) \in starts THEN v[n] ELSE x[n][j]]]

\* torch.stack((a, b, ...), dim=1).view(-1)
Interleave(cols) ==
    Flatten([n \in 1..Len(cols[1]) |-> [c \in 1..Len(cols) |-> cols[c][n]]])

\* v * f, elementwise (segments *= step, segments *= div, widx * block * block)
Scaled(v, f) == [k \in 1..Len(v) |-> v[k] * f]

\* offsets = torch.min(offsets, (num_blocks - 1) * torch.ones_like(offsets))
ClipOffsets(offsets, num_blocks) ==
    [k \in 1..Len(offsets) |-> Min2(offsets[k], num_blocks - 1)]

\* idx = transform(nnz[:, 2] * block), transform the identity
Idx(nnz, blk) == [n \in 1..Len(nnz) |-> nnz[n][3] * blk]

\* xincs (lines 449-458)
XIncs(idx, div, step, offsets, segments) ==
    Flatten(SetStarts(Expand(Deltas(idx), div, step), idx, offsets, segments))

\* wincs (lines 472-482)
WIncs(widx, blk, div, fine, offsets, segments) ==
    Flatten(SetStarts(Expand(Deltas(Scaled(widx, blk * blk)), div, fine),
                      widx, offsets, segments))

\* offsets *= 2 * div; segments *= div; offsets += 6 * width; header (484-489)
Header(acc, offsets, segments, div) ==
    Interleave(<<[k \in 1..Len(offsets) |->
                     offsets[k] * 2 * div + 6 * Len(acc.column)],
                 Scaled(segments, div),
                 acc.column, acc.depth, acc.lockid, acc.maxid>>)

\* incs, lut, num_locks, width (lines 490-497)
DxxAssemble(acc, offsets, segments, idx, widx, blk, step, tr, device) ==
    [state     |-> "returned",
     lut       |-> Header(acc, offsets, segments, blk \div step)
                   \o Interleave(<<XIncs(idx, blk \div step, step, offsets, segments),
                                   WIncs(widx, blk, blk \div step,
                                         IF tr THEN step ELSE step * blk,
                                         offsets, segments)>>)
                   \o <<0, 0>>,
     type      |-> "tensor",
     device    |-> device,
     num_locks |-> Max2(1, SeqMax(acc.lockid)),
     width     |-> Len(acc.column),
     packs     |-> "None"]

\* Lines 440-497, after the loop over the depth slices has returned acc.
DxxIncrements(acc, nnz, L, blk, step, tr, device) ==
    DxxAssemble(acc, ClipOffsets(acc.offsets, Len(nnz)), Scaled(acc.segments, step),
                Idx(nnz, blk), Widx(L, tr, nnz), blk, step, tr, device)

\* The accumulators before the loop (lines 414-422).
DxxAcc0 ==
    [raised |-> FALSE, segments |-> <<>>, column |-> <<>>, depth |-> <<>>,
     maxid |-> <<>>, offsets |-> <<>>, lockid |-> <<>>,
     current_maxid |-> 0, current_offset |-> 0]

DxxFinish(acc, L, blk, step, tr, device) ==
    IF acc.raised THEN [state |-> "raised"]
    ELSE DxxIncrements(acc, Nonzero(L, tr), L, blk, step, tr, device)

make_dxx_lut(L, blk, step, tr, device) ==
    DxxFinish(DxxLoop(DxxAcc0, 0, L, tr), L, blk, step, tr, device)

(***************************************************************************)
(* Specification SpecLB: load_balance applied to bounded inputs            *)
(***************************************************************************)
Pending == [state |-> "pending"]

LBInputs == SeqsOf(0..MaxSmall, 1, MaxCols) \cup SeqsOf(0..MaxSize, 1, MaxBigCols)

IdleLut == layout = <<>> /\ block = 0 /\ trans = FALSE /\ lut = Pending

IdleLocks == locks = <<>> /\ nalloc = 0 /\ lastLock = Pending /\ requested = <<>>

IdleSched == sched = Pending /\ lut_cache = <<>> /\ builds = <<>> /\ lastOp = Pending

IdleLB == sizes = <<>> /\ lb = Pending

IdleKernel == pid0 = <<>> /\ C = <<>>

InitLB ==
    /\ sizes \in LBInputs
    /\ lb = Pending
    /\ IdleLut /\ IdleLocks /\ IdleSched /\ IdleKernel

LoadBalance ==
    /\ lb.state = "pending"
    /\ lb' = load_balance(sizes)
    /\ UNCHANGED <<sizes, layout, block, trans, lut, locks, nalloc, lastLock, requested,
                   sched, lut_cache, builds, lastOp, pid0, C>>

NextLB == LoadBalance

SpecLB == InitLB /\ [][NextLB]_vars

(***************************************************************************)
(* Specification SpecLut: make_dxx_lut applied to bounded layouts          *)
(***************************************************************************)
\* The strictly increasing sequences of exactly k numbers of 1..n.
RECURSIVE IncSeqs(_, _)
IncSeqs(n, k) ==
    IF k = 0 THEN {<<>>}
    ELSE UNION {{Append(s, e) : e \in (IF Len(s) = 0 THEN 1 ELSE s[Len(s)] + 1)..n} :
                s \in IncSeqs(n, k - 1)}

\* The choices of at most MaxNnz populated blocks among n positions.
Populated(n) == UNION {IncSeqs(n, k) : k \in 0..MaxNnz}

\* The Z x H x W layout whose populated blocks are the positions P, numbered
\* 1..Z*H*W in row-major order.
LayoutOf(Z, H, W, P) ==
    [z \in 1..Z |-> [h \in 1..H |-> [w \in 1..W |->
        IF \E i \in 1..Len(P) : P[i] = ((z - 1) * H + (h - 1)) * W + w
        THEN 1 ELSE 0]]]

\* block is a multiple of step
Blocks == {Step, 2 * Step}

InitLut ==
    /\ \E Z \in 1..MaxZ, H \in 1..MaxH, W \in 1..MaxW :
           \E P \in Populated(Z * H * W) : layout = LayoutOf(Z, H, W, P)
    /\ block \in Blocks
    /\ trans \in BOOLEAN
    /\ lut = Pending
    /\ IdleLB /\ IdleLocks /\ IdleSched /\ IdleKernel

MakeDxxLut ==
    /\ lut.state = "pending"
    /\ lut' = make_dxx_lut(layout, block, Step, trans, "cuda:0")
    /\ UNCHANGED <<sizes, lb, layout, block, trans, locks, nalloc, lastLock, requested,
                   sched, lut_cache, builds, lastOp, pid0, C>>

NextLut == MakeDxxLut

SpecLut == InitLut /\ [][NextLut]_vars

(***************************************************************************)
(* _matmul.get_locks and _matmul.locks (matmul.py 342, 396-401)            *)
(*                                                                         *)
(* A buffer is [present, id, size]: id tells one torch.zeros allocation    *)
(* from another, so that "the same buffer" can be stated.                  *)
(***************************************************************************)
Devices == {"cuda:0", "cuda:1"}

NoBuffer == [present |-> FALSE, id |-> 0, size |-> 0]

\* Variant of MustAllocate: a request of exactly the held size reallocates.
MustAllocateGeq(held, size) == ~held.present \/ size >= held.size

\* if dev not in _matmul.locks or size > _matmul.locks[dev].size(0)
MustAllocate(held, size) == ~held.present \/ size > held.size

GetLocks(size, dev) ==
    LET fresh == MustAllocate(locks[dev], size)
        buf   == IF fresh THEN [present |-> TRUE, id |-> nalloc + 1, size |-> size]
                 ELSE locks[dev]
    IN  /\ locks' = [locks EXCEPT ![dev] = buf]
        /\ nalloc' = IF fresh THEN nalloc + 1 ELSE nalloc
        /\ requested' = [requested EXCEPT ![dev] = @ \cup {size}]
        /\ lastLock' = [state |-> "returned", size |-> size, dev |-> dev,
                        before |-> locks, ret |-> buf]
        /\ UNCHANGED <<sizes, lb, layout, block, trans, lut,
                       sched, lut_cache, builds, lastOp, pid0, C>>

\* locks = dict()
InitLocks ==
    /\ locks = [d \in Devices |-> NoBuffer]
    /\ nalloc = 0
    /\ requested = [d \in Devices |-> {}]
    /\ lastLock = Pending
    /\ IdleLB /\ IdleLut /\ IdleSched /\ IdleKernel

NextLocks == \E size \in 0..MaxLockSize, dev \in Devices : GetLocks(size, dev)

SpecLocks == InitLocks /\ [][NextLocks]_vars

(***************************************************************************)
(* sdd_lut (matmul.py 123-134)                                             *)
(*                                                                         *)
(* The super-blocking itself is libtriton.superblock, which is not part of *)
(* the python source: its result is kept as a term over its arguments.     *)
(***************************************************************************)
sdd_lut(L, blk, device) ==
    LET superblocks == [superblock |-> <<L, 128 \div blk>>]
    IN  [state |-> "returned",
         lut   |-> [luts |-> superblocks],
         type  |-> "list",
         device |-> device,
         num_locks |-> "None",
         width |-> [widths |-> superblocks],
         packs |-> [packs |-> superblocks]]

(***************************************************************************)
(* class matmul (matmul.py 552-681)                                        *)
(*                                                                         *)
(* A tensor is [dtype, device, shape]; a layout argument is                *)
(* [shape, data] with data the entries in row-major order.                 *)
(***************************************************************************)
Modes == {"sdd", "dsd", "dds"}

\* seq[i] with a python index (negative: from the end)
PyIndex(seq, i) == IF i < 0 THEN seq[Len(seq) + i + 1] ELSE seq[i + 1]

\* seq[-n:]
PySuffix(seq, n) ==
    IF Len(seq) <= n THEN seq ELSE SubSeq(seq, Len(seq) - n + 1, Len(seq))

\* The 3-dimensional layout L[z + 1][h + 1][w + 1] of row-major data.
Nested(shape3, data) ==
    [z \in 1..shape3[1] |-> [h \in 1..shape3[2] |-> [w \in 1..shape3[3] |->
        data[((z - 1) * shape3[2] + (h - 1)) * shape3[3] + w]]]]

\* -((sparse_inner % 2) + 1): the other one of the dimensions -1 and -2
OtherInner(i) == 0 - ((i % 2) + 1)

\* trans_dense, trans_sparse, sparse_inner =
\*     (trans_b, trans_a, -1) if mode == 'dsd' else (trans_a, trans_b, -2)
TransDense(mode, ta, tb) == IF mode = "dsd" THEN tb ELSE ta

TransSparse(mode, ta, tb) == IF mode = "dsd" THEN ta ELSE tb

SparseInner0(mode) == IF mode = "dsd" THEN 0 - 1 ELSE 0 - 2

\* Variant of DenseInnerDim: the transposition of the dense operand ignored.
DenseInnerDimIgnoringTrans(mode, ta, tb) == OtherInner(SparseInner0(mode))

\* self.dense_inner_dim = -((sparse_inner % 2) + 1) if not trans_dense else sparse_inner
DenseInnerDim(mode, ta, tb) ==
    IF ~TransDense(mode, ta, tb) THEN OtherInner(SparseInner0(mode))
    ELSE SparseInner0(mode)

\* sparse_inner = sparse_inner if not trans_sparse else -((sparse_inner % 2) + 1)
SparseInner(mode, ta, tb) ==
    IF ~TransSparse(mode, ta, tb) THEN SparseInner0(mode)
    ELSE OtherInner(SparseInner0(mode))

\* Variant of ModeSupported: one more mode string accepted.
ModeSupportedOrSsd(mode) == mode \in Modes \cup {"ssd"}

\* if mode not in ['sdd', 'dsd', 'dds']: raise NotImplementedError
ModeSupported(mode) == mode \in Modes

\* layout.unsqueeze(0).shape
Unsqueeze0(shape) == <<1>> \o shape

\* matmul.__init__ (lines 585-616): the instance, or the exception raised.
MatmulInit(l, blk, mode, ta, tb) ==
    LET args   == [layout |-> l, block |-> blk, mode |-> mode,
                   trans_a |-> ta, trans_b |-> tb]
        shape3 == IF Len(l.shape) = 2 THEN Unsqueeze0(l.shape) ELSE l.shape
    IN  IF ~ModeSupported(mode)
        THEN [state |-> "raised", error |-> "NotImplementedError", args |-> args]
        ELSE IF Len(l.shape) \notin {2, 3}
        THEN [state |-> "raised", error |-> "AssertionError", args |-> args]
        ELSE IF mode = "sdd"
        THEN [state |-> "constructed", args |-> args,
              block |-> blk, mode |-> mode, trans_a |-> ta, trans_b |-> tb,
              layout |-> Nested(shape3, l.data), spdims |-> shape3]
        ELSE [state |-> "constructed", args |-> args,
              block |-> blk, mode |-> mode, trans_a |-> ta, trans_b |-> tb,
              dense_inner_dim  |-> DenseInnerDim(mode, ta, tb),
              dense_inner_size |-> PyIndex(l.shape, SparseInner(mode, ta, tb)) * blk,
              sparse_shape     |-> <<SeqSum(l.data), blk, blk>>,
              layout |-> Nested(shape3, l.data), spdims |-> shape3]

DTypes == {"float16", "float32"}

TensorDevices == {"cuda:0", "cpu"}

\* key = (dtype, device)
Keys == DTypes \X TensorDevices

NoEntry == [present |-> FALSE]

\* The orientation flag make_lut passes to make_dxx_lut for the output LUT
\* (lines 563, 565) and for the two gradient LUTs (lines 568, 572, 575, 577).
CTrans(mode, ta, tb) == IF mode = "dsd" THEN ~ta ELSE tb

DaTrans(mode, ta, tb) == IF mode = "sdd" THEN TRUE ELSE ~tb

DbTrans(mode, ta, tb) == IF mode = "sdd" THEN FALSE ELSE ta

\* The three builder calls of make_lut (lines 558-579).
CLut(s, device) ==
    IF s.mode = "sdd" THEN sdd_lut(s.layout, s.block, device)
    ELSE make_dxx_lut(s.layout, s.block, Step,
                      CTrans(s.mode, s.trans_a, s.trans_b), device)

DaLut(s, device) ==
    IF s.mode = "dsd" THEN sdd_lut(s.layout, s.block, device)
    ELSE make_dxx_lut(s.layout, s.block, Step,
                      DaTrans(s.mode, s.trans_a, s.trans_b), device)

DbLut(s, device) ==
    IF s.mode = "dds" THEN sdd_lut(s.layout, s.block, device)
    ELSE make_dxx_lut(s.layout, s.block, Step,
                      DbTrans(s.mode, s.trans_a, s.trans_b), device)

\* (lut, num_locks, width, packs) of one builder; the table carries its device
Quad(r) ==
    <<[table |-> r.lut, type |-> r.type, device |-> r.device],
      r.num_locks, r.width, r.packs>>

\* matmul.make_lut (lines 553-583) on the cache `cache`: the value returned
\* (or the exception of a builder), whether the builders ran, and the cache
\* after the call.
CacheHit(cache, key) == cache[key].present

StoreLuts(cache, key, value) ==
    [state |-> "returned", built |-> TRUE, value |-> value,
     cache |-> [k \in Keys |->
                  IF k = key THEN [present |-> TRUE, value |-> value]
                  ELSE cache[k]]]

BuildLuts(cache, key, c, da, db) ==
    IF c.state = "raised" \/ da.state = "raised" \/ db.state = "raised"
    THEN [state |-> "raised", built |-> TRUE, error |-> "RuntimeError",
          cache |-> cache]
    ELSE StoreLuts(cache, key, Quad(c) \o Quad(da) \o Quad(db))

make_lut(s, cache, key) ==
    IF CacheHit(cache, key)
    THEN [state |-> "returned", built |-> FALSE, value |-> cache[key].value,
          cache |-> cache]
    ELSE BuildLuts(cache, key, CLut(s, key[2]), DaLut(s, key[2]), DbLut(s, key[2]))

\* matmul._validate_inputs (lines 640-681)
IsCuda(x) == x.device # "cpu"

\* x.view(*singletons, *x.shape)
AddExtraDims(shape) == [i \in 1..(4 - Len(shape)) |-> 1] \o shape

\* dense, dense_name, sparse, sparse_name =
\*     (a, 'A', b, 'B') if mode == 'dds' else (b, 'B', a, 'A')
DenseName(mode) == IF mode = "dds" THEN "A" ELSE "B"

SparseName(mode) == IF mode = "dds" THEN "B" ELSE "A"

ShapeProblem(s, a, b) ==
    LET dense       == IF s.mode = "dds" THEN a ELSE b
        sparse      == IF s.mode = "dds" THEN b ELSE a
        dense_inner == PyIndex(dense.shape, s.dense_inner_dim)
    IN  IF s.mode = "sdd" THEN [what |-> "none"]
        ELSE IF dense_inner # s.dense_inner_size
        THEN [what |-> "dense_inner", tensor |-> DenseName(s.mode),
              expected |-> s.dense_inner_size,
              dim |-> s.dense_inner_dim % Len(dense.shape),
              got |-> dense_inner]
        ELSE IF PySuffix(sparse.shape, Len(s.sparse_shape)) # s.sparse_shape
        THEN [what |-> "sparse_shape", tensor |-> SparseName(s.mode),
              expected |-> s.sparse_shape, got |-> sparse.shape]
        ELSE [what |-> "none"]

ValidateInputs(s, a, b, autocast) ==
    LET a1 == IF autocast THEN [a EXCEPT !.dtype = "float16"] ELSE a
        b1 == IF autocast THEN [b EXCEPT !.dtype = "float16"] ELSE b
        sp == ShapeProblem(s, a1, b1)
    IN  IF a.device # b.device
        THEN [state |-> "raised",
              error |-> [what |-> "device", a |-> a.device, b |-> b.device]]
        ELSE IF ~IsCuda(a)
        THEN [state |-> "raised", error |-> [what |-> "not_cuda"]]
        ELSE IF ~autocast /\ a.dtype # b.dtype
        THEN [state |-> "raised",
              error |-> [what |-> "dtype", a |-> a.dtype, b |-> b.dtype]]
        ELSE IF sp.what # "none"
        THEN [state |-> "raised", error |-> sp]
        ELSE IF Len(a.shape) > 4 \/ Len(b.shape) > 4
        THEN [state |-> "raised", error |-> [what |-> "more_than_4_dims"]]
        ELSE [state |-> "returned",
              a |-> [a1 EXCEPT !.shape = AddExtraDims(a.shape)],
              b |-> [b1 EXCEPT !.shape = AddExtraDims(b.shape)]]

\* n_blocks = sum([width * pack * pack for width, pack in zip(widths, packs)])
\* over the groups of libtriton.superblock, which partition the populated
\* blocks of the layout.
SddNBlocks(quad) == SeqSum(Flatten(Flatten(quad[1].table.luts.superblock[1])))

\* sdd_matmul (lines 86-121) once the inner sizes Ka, Kb are read: the two
\* shape constraints, then zip(widths, packs) (a TypeError unless they are
\* the lists of sdd_lut), then the output is allocated and _sdd_kernel
\* launched.
SddChecked(a, b, Ka, Kb, blk, quad) ==
    IF Ka # Kb
    THEN [state |-> "raised", dispatched |-> FALSE,
          error |-> [what |-> "inner_mismatch", a |-> Ka, b |-> Kb]]
    ELSE IF Ka % 16 # 0
    THEN [state |-> "raised", dispatched |-> FALSE,
          error |-> [what |-> "reduction_not_multiple_of_16"]]
    ELSE IF quad[1].type # "list"
    THEN [state |-> "raised", dispatched |-> FALSE,
          error |-> [what |-> "TypeError"]]
    ELSE [state |-> "returned", dispatched |-> TRUE, kernel |-> "sdd",
          lut |-> quad,
          c |-> [dtype |-> a.dtype, device |-> a.device,
                 shape |-> <<a.shape[1], SddNBlocks(quad), blk, blk>>]]

\* a_dim = -2 if trans_a else -1; b_dim = -1 if trans_b else -2
SddDims(a, b, ta, tb, blk, quad) ==
    SddChecked(a, b, PyIndex(a.shape, IF ta THEN 0 - 2 ELSE 0 - 1),
               PyIndex(b.shape, IF tb THEN 0 - 1 ELSE 0 - 2), blk, quad)

\* if trans_c: a, b = b, a; trans_a, trans_b = not trans_b, not trans_a
sdd_matmul(a, b, ta, tb, tc, spdims, blk, quad) ==
    IF tc THEN SddDims(b, a, ~tb, ~ta, blk, quad)
    ELSE SddDims(a, b, ta, tb, blk, quad)

\* dsd_matmul (lines 208-235): output shape, then _dsd_kernel is launched
\* with the table and the transpose arguments it was given.
dsd_matmul(a, b, ta, tb, tc, spdims, blk, quad) ==
    [state |-> "returned", dispatched |-> TRUE, kernel |-> "dsd", lut |-> quad,
     trans_a |-> ta, trans_b |-> tb, trans_c |-> tc,
     c |-> [dtype |-> a.dtype, device |-> a.device,
            shape |-> <<b.shape[1], b.shape[2],
                        IF tc THEN b.shape[IF tb THEN 3 ELSE 4]
                        ELSE blk * spdims[IF ta THEN 3 ELSE 2],
                        IF tc THEN blk * spdims[IF ta THEN 3 ELSE 2]
                        ELSE b.shape[IF tb THEN 3 ELSE 4]>>]]

\* dds_matmul (lines 311-335)
dds_matmul(a, b, ta, tb, tc, spdims, blk, quad) ==
    [state |-> "returned", dispatched |-> TRUE, kernel |-> "dds", lut |-> quad,
     trans_a |-> ta, trans_b |-> tb, trans_c |-> tc,
     c |-> [dtype |-> a.dtype, device |-> a.device,
            shape |-> <<a.shape[1], a.shape[2],
                        IF tc THEN blk * spdims[IF tb THEN 2 ELSE 3]
                        ELSE a.shape[IF ta THEN 4 ELSE 3],
                        IF tc THEN a.shape[IF ta THEN 4 ELSE 3]
                        ELSE blk * spdims[IF tb THEN 2 ELSE 3]>>]]

\* fn = {'sdd': sdd_matmul, 'dsd': dsd_matmul, 'dds': dds_matmul}; a mode
\* that is no key of the dictionary raises KeyError.
Fn(mode, a, b, ta, tb, tc, spdims, blk, quad) ==
    IF mode = "sdd" THEN sdd_matmul(a, b, ta, tb, tc, spdims, blk, quad)
    ELSE IF mode = "dsd" THEN dsd_matmul(a, b, ta, tb, tc, spdims, blk, quad)
    ELSE IF mode = "dds" THEN dds_matmul(a, b, ta, tb, tc, spdims, blk, quad)
    ELSE [state |-> "raised", dispatched |-> FALSE,
          error |-> [what |-> "KeyError", mode |-> mode]]

\* The (lut, num_locks, width, packs) of c, da and db in the cached tuple.
CQuad(value) == SubSeq(value, 1, 4)

DaQuad(value) == SubSeq(value, 5, 8)

DbQuad(value) == SubSeq(value, 9, 12)

\* _matmul.forward (lines 501-524): trans_c is False (line 632).
Forward(s, a, b, value) ==
    Fn(s.mode, a, b, s.trans_a, s.trans_b, FALSE, s.spdims, s.block, CQuad(value))

\* The three characters of a mode string, and the string of three characters.
ModeChars(mode) ==
    CASE mode = "sdd" -> <<"s", "d", "d">>
      [] mode = "dsd" -> <<"d", "s", "d">>
      [] mode = "dds" -> <<"d", "d", "s">>

ModeString(c) == c[1] \o c[2] \o c[3]

\* Variant of ModeDa: the left gradient takes the forward mode itself.
ModeDaUnswapped(mode) == mode

\* mode_da = mode[1] + mode[0] + mode[2]
ModeDa(mode) ==
    ModeString(<<ModeChars(mode)[2], ModeChars(mode)[1], ModeChars(mode)[3]>>)

\* mode_db = mode[2] + mode[1] + mode[0]
ModeDb(mode) ==
    ModeString(<<ModeChars(mode)[3], ModeChars(mode)[2], ModeChars(mode)[1]>>)

NoGrad == [state |-> "none"]

\* Variant of GradA: the transposition of b is passed on unchanged.
GradASameTrans(s, dc, b, value) ==
    Fn(ModeDa(s.mode), dc, b, FALSE, s.trans_b, s.trans_a, s.spdims, s.block,
       DaQuad(value))

\* da = _matmul.fn[mode_da](dc, b, False, not ctx.trans_b, ctx.trans_a, ...)
GradA(s, dc, b, value) ==
    Fn(ModeDa(s.mode), dc, b, FALSE, ~s.trans_b, s.trans_a, s.spdims, s.block,
       DaQuad(value))

\* db = _matmul.fn[mode_db](a, dc, not ctx.trans_a, False, ctx.trans_b, ...)
GradB(s, a, dc, value) ==
    Fn(ModeDb(s.mode), a, dc, ~s.trans_a, FALSE, s.trans_b, s.spdims, s.block,
       DbQuad(value))

\* _matmul.backward (lines 525-549) with the two gradients as computed, da
\* first: an exception of the first one leaves the second one uncomputed.
BackwardOf(da, db) ==
    IF da.state = "raised" THEN [state |-> "raised", da |-> da, db |-> NoGrad]
    ELSE IF db.state = "raised" THEN [state |-> "raised", da |-> da, db |-> db]
    ELSE [state |-> "returned", da |-> da, db |-> db]

\* if ctx.needs_input_grad[0]: ...; if ctx.needs_input_grad[1]: ...
Backward(s, a, b, dc, value, needs_a, needs_b) ==
    BackwardOf(IF needs_a THEN GradA(s, dc, b, value) ELSE NoGrad,
               IF needs_b THEN GradB(s, a, dc, value) ELSE NoGrad)

\* for _ in range(dims_to_trim): c = c.squeeze(0)
RECURSIVE Squeeze0(_, _)
Squeeze0(shape, n) ==
    IF n <= 0 THEN shape
    ELSE Squeeze0(IF shape[1] = 1 THEN Tail(shape) ELSE shape, n - 1)

\* matmul.__call__ (lines 618-638): make_lut, then _validate_inputs, then
\* _matmul.apply; the outcome of the call and the cache after it.
CallForward(ml, va, vb, f, original_dims) ==
    IF f.state = "raised"
    THEN [state |-> "raised", stage |-> "forward", dispatched |-> FALSE,
          built |-> ml.built, error |-> f.error, cache |-> ml.cache]
    ELSE [state |-> "returned", stage |-> "done", dispatched |-> TRUE,
          built |-> ml.built, kernel |-> f.kernel, lut |-> ml.value,
          cache |-> ml.cache, saved |-> <<va, vb>>, c |-> f.c,
          ret |-> [f.c EXCEPT !.shape = Squeeze0(f.c.shape, 4 - original_dims)]]

CallValidated(s, ml, v, original_dims) ==
    IF v.state = "raised"
    THEN [state |-> "raised", stage |-> "validate", dispatched |-> FALSE,
          built |-> ml.built, error |-> v.error, cache |-> ml.cache]
    ELSE CallForward(ml, v.a, v.b, Forward(s, v.a, v.b, ml.value), original_dims)

CallWithLut(s, ml, a, b, autocast) ==
    IF ml.state = "raised"
    THEN [state |-> "raised", stage |-> "make_lut", dispatched |-> FALSE,
          built |-> ml.built, error |-> [what |-> ml.error], cache |-> ml.cache]
    ELSE CallValidated(s, ml, ValidateInputs(s, a, b, autocast),
                       Max2(Len(a.shape), Len(b.shape)))

CallOp(s, cache, a, b, autocast) ==
    CallWithLut(s, make_lut(s, cache, <<a.dtype, a.device>>), a, b, autocast)

(***************************************************************************)
(* Claims about load_balance (checked under SpecLB)                        *)
(***************************************************************************)
\* The positions (1-based) of the segments load_balance gave to the column
\* with python index c.
SegsOf(res, c) == {k \in 1..Len(res.segments) : res.column[k] = c}

RECURSIVE SumOver(_, _)
SumOver(f, S) ==
    IF S = {} THEN 0
    ELSE LET k == CHOOSE x \in S : TRUE IN f[k] + SumOver(f, S \ {k})

\* seg_min as the claims state it: max(ceil(max(sizes) / 4), 4)
ClaimSegMin(s) == Max2((SeqMax(s) + 3) \div 4, 4)

NonzeroCols(s) == {i \in 1..Len(s) : s[i] > 0}

ZeroCols(s) == {i \in 1..Len(s) : s[i] = 0}

\* C1: for every sizes with a nonzero entry load_balance returns, the sizes of
\* the segments owned by column i sum exactly to sizes[i] (so the sum of all
\* segment sizes is the sum of sizes), every segment belongs to a column, and
\* no segment is larger than max(sizes).
C1_SumPreserved ==
    (lb.state # "pending" /\ NonzeroCols(sizes) # {}) =>
        /\ lb.state = "returned"
        /\ \A k \in 1..Len(lb.segments) :
               /\ lb.column[k] \in 0..(Len(sizes) - 1)
               /\ lb.segments[k] >= 0
               /\ lb.segments[k] <= SeqMax(sizes)
        /\ \A i \in 1..Len(sizes) :
               SumOver(lb.segments, SegsOf(lb, i - 1)) = sizes[i]
        /\ SeqSum(lb.segments) = SeqSum(sizes)

\* C1 witness: load_balance returned for three or more columns, one at the
\* maximum, one strictly between seg_min and the maximum, one below seg_min.
C1_Witness ==
    /\ lb.state = "returned"
    /\ Len(sizes) >= 3
    /\ \E i, j, k \in 1..Len(sizes) :
           /\ sizes[i] = SeqMax(sizes)
           /\ sizes[j] >= ClaimSegMin(sizes) /\ sizes[j] < SeqMax(sizes)
           /\ sizes[k] < ClaimSegMin(sizes) /\ sizes[k] > 0

\* C3 as stated: every column with sizes[i] >= 2 * seg_min is split into more
\* than one segment, all carrying the same nonzero lock id.
C3_SplitAndLocked ==
    lb.state = "returned" =>
        \A i \in 1..Len(sizes) :
            sizes[i] >= 2 * ClaimSegMin(sizes) =>
                /\ Cardinality(SegsOf(lb, i - 1)) > 1
                /\ \E l \in 1..Len(lb.segments) :
                       \A k \in SegsOf(lb, i - 1) : lb.lockid[k] = l

\* C3 amended: every column with sizes[i] >= 2 * seg_min gets exactly one
\* segment, of size sizes[i], with lock id 0 and max_tasks_for_lock 0
\* (seg_max is max(sizes), so no column is ever split).
C3_OneUnlockedSegment ==
    lb.state = "returned" =>
        \A i \in 1..Len(sizes) :
            sizes[i] >= 2 * ClaimSegMin(sizes) =>
                /\ Cardinality(SegsOf(lb, i - 1)) = 1
                /\ \A k \in SegsOf(lb, i - 1) :
                       /\ lb.segments[k] = sizes[i]
                       /\ lb.lockid[k] = 0
                       /\ lb.maxid[k] = 0

\* C3 witness: a returned call with a column of at least 2 * seg_min that is
\* the maximum and another that is not, with seg_min above 4.
C3_Witness ==
    /\ lb.state = "returned"
    /\ ClaimSegMin(sizes) > 4
    /\ \E i, j \in 1..Len(sizes) :
           /\ sizes[i] = SeqMax(sizes)
           /\ sizes[j] >= 2 * ClaimSegMin(sizes) /\ sizes[j] < SeqMax(sizes)

\* C4 as stated: every column with sizes[i] < seg_min (columns equal to
\* max(sizes) < 4 and columns of size 0 included) gets exactly one segment,
\* of size sizes[i], with lock id 0.
C4_SmallColumnOneSegment ==
    lb.state = "returned" =>
        \A i \in 1..Len(sizes) :
            sizes[i] < ClaimSegMin(sizes) =>
                /\ Cardinality(SegsOf(lb, i - 1)) = 1
                /\ \A k \in SegsOf(lb, i - 1) :
                       lb.segments[k] = sizes[i] /\ lb.lockid[k] = 0

\* C5 as stated: the number of segments is at most 4 times the number of
\* columns with sizes[i] > 0.
C5_WidthBound ==
    lb.state = "returned" =>
        Len(lb.segments) <= 4 * Cardinality(NonzeroCols(sizes))

\* C5 amended: the number of segments is at most 4 times the number of
\* columns with sizes[i] > 0 plus the number of columns with sizes[i] = 0
\* (every zero column gets a segment of its own, of size 0).
C5_WidthBoundWithZeroCols ==
    lb.state = "returned" =>
        /\ Len(lb.segments) <= 4 * Cardinality(NonzeroCols(sizes))
                                 + Cardinality(ZeroCols(sizes))
        /\ \A i \in ZeroCols(sizes) : Cardinality(SegsOf(lb, i - 1)) = 1

\* C5 witness: a returned call whose segments outnumber 4 times its nonzero
\* columns because of its zero columns.
C5_Witness ==
    /\ lb.state = "returned"
    /\ ZeroCols(sizes) # {}
    /\ Len(lb.segments) > 4 * Cardinality(NonzeroCols(sizes))

\* C6 as stated: when every entry of sizes is 0, load_balance returns
\* normally with an empty result carrying no reduction work.
C6_AllZeroIsNoOp ==
    (lb.state # "pending" /\ NonzeroCols(sizes) = {}) =>
        /\ lb.state = "returned"
        /\ SeqSum(lb.segments) = 0

(***************************************************************************)
(* Claims about make_dxx_lut (checked under SpecLut)                       *)
(***************************************************************************)
\* Field f (0..5: offset, segment size, column, depth, lock id, max tasks)
\* of the header of task k (0-based) of a table.
Hdr(tab, k, f) == tab[6 * k + f + 1]

\* The tasks of the table that belong to depth z, column c.
TasksOf(res, z, c) ==
    {k \in 0..(res.width - 1) : Hdr(res.lut, k, 3) = z /\ Hdr(res.lut, k, 2) = c}

\* C2 as stated: in the header built by make_dxx_lut over all depth slices,
\* every (depth, column) with more than one segment has a nonzero lock id
\* shared by all its segments and by no other segment, with max_tasks equal
\* to the number of its segments; every (depth, column) with exactly one
\* segment has lock id 0.
C2_LockPerSplitColumn ==
    lut.state = "returned" =>
        \A k \in 0..(lut.width - 1) :
            LET mine == TasksOf(lut, Hdr(lut.lut, k, 3), Hdr(lut.lut, k, 2))
            IN  /\ Cardinality(mine) > 1 =>
                       /\ Hdr(lut.lut, k, 4) > 0
                       /\ Hdr(lut.lut, k, 5) = Cardinality(mine)
                       /\ \A j \in 0..(lut.width - 1) :
                              (Hdr(lut.lut, j, 4) = Hdr(lut.lut, k, 4)) <=> (j \in mine)
                /\ Cardinality(mine) = 1 => Hdr(lut.lut, k, 4) = 0

(***************************************************************************)
(* Claims about get_locks (checked under SpecLocks)                        *)
(***************************************************************************)
SetMax(S) == CHOOSE m \in S : \A x \in S : x <= m

\* C10: after any sequence of get_locks calls, a device holds a buffer iff a
\* size was requested for it, and that buffer's size is the largest size
\* ever requested for the device; the last call returned the buffer the
\* dictionary now holds for its device, of at least the requested size; it
\* did not shrink the device's buffer; a request not larger than the buffer
\* held before returned that very buffer; other devices' buffers are as
\* before.
C10_LocksGrowToLargest ==
    /\ \A d \in Devices :
           /\ locks[d].present <=> requested[d] # {}
           /\ locks[d].present => locks[d].size = SetMax(requested[d])
    /\ lastLock.state = "returned" =>
           LET d == lastLock.dev
               b == lastLock.before
           IN  /\ lastLock.ret = locks[d]
               /\ lastLock.ret.present
               /\ lastLock.ret.size >= lastLock.size
               /\ b[d].present => locks[d].size >= b[d].size
               /\ (b[d].present /\ lastLock.size <= b[d].size) => lastLock.ret = b[d]
               /\ \A e \in Devices \ {d} : locks[e] = b[e]

\* C10 witness: a call asked for no more than the buffer its device already
\* held after that buffer had been grown, while another device holds one.
C10_Witness ==
    /\ lastLock.state = "returned"
    /\ lastLock.before[lastLock.dev].present
    /\ lastLock.before[lastLock.dev].id > 1
    /\ lastLock.size <= lastLock.before[lastLock.dev].size
    /\ Cardinality(requested[lastLock.dev]) >= 3
    /\ \E e \in Devices \ {lastLock.dev} : locks[e].present

(***************************************************************************)
(* Specification SpecSched: a scheduler is constructed, then called once   *)
(***************************************************************************)
Tensor(dt, dev, shape) == [dtype |-> dt, device |-> dev, shape |-> shape]

RECURSIVE SeqProd(_)
SeqProd(s) == IF s = <<>> THEN 1 ELSE Head(s) * SeqProd(Tail(s))

\* Every 0/1 filling of every shape of the set.
LayoutsOf(shapes) ==
    UNION {{[shape |-> sh, data |-> d] : d \in SeqsOf({0, 1}, SeqProd(sh), SeqProd(sh))} :
           sh \in shapes}

SchedShapes == {<<2>>, <<1, 2>>, <<2, 1>>, <<2, 1, 1>>, <<1, 1, 1, 1>>}

SchedModes == Modes \cup {"ssd"}

\* Operand shapes, in units of the instance's block size B.
OperandShapes(B) ==
    {<<1, 1, B, B>>, <<1, 1, B, 2 * B>>, <<1, 1, 2 * B, B>>, <<1, 2, B, B>>,
     <<2, B, B>>, <<B, 2 * B>>, <<2 * B, B>>, <<1, 1, 1, B, 2 * B>>}

\* dtype of a, dtype of b, device of a, device of b, torch.is_autocast_enabled()
Envs ==
    {<<"float16", "float16", "cuda:0", "cuda:0", FALSE>>,
     <<"float32", "float16", "cuda:0", "cuda:0", FALSE>>,
     <<"float32", "float16", "cuda:0", "cuda:0", TRUE>>,
     <<"float16", "float16", "cpu", "cpu", FALSE>>,
     <<"float16", "float16", "cuda:0", "cpu", FALSE>>}

\* matmul(layout, block, mode, trans_a, trans_b); self.lut_cache = dict()
Construct(l, blk, mode, ta, tb) ==
    /\ sched.state = "pending"
    /\ sched' = MatmulInit(l, blk, mode, ta, tb)
    /\ lut_cache' = IF ModeSupported(mode) THEN [k \in Keys |-> NoEntry] ELSE lut_cache
    /\ builds' = [k \in Keys |-> 0]
    /\ UNCHANGED <<sizes, lb, layout, block, trans, lut, locks, nalloc, lastLock,
                   requested, lastOp, pid0, C>>

\* self.make_lut(dtype, device)
MakeLut(key) ==
    /\ sched.state = "constructed"
    /\ CacheHit(lut_cache, key) \/ builds[key] < MaxBuilds
    /\ \E out \in {make_lut(sched, lut_cache, key)} :
           /\ lut_cache' = out.cache
           /\ builds' = [k \in Keys |->
                           IF k = key /\ out.built THEN builds[k] + 1 ELSE builds[k]]
           /\ lastOp' = [state |-> out.state, op |-> "make_lut", key |-> key,
                         before |-> lut_cache, out |-> out]
    /\ UNCHANGED <<sizes, lb, layout, block, trans, lut, locks, nalloc, lastLock,
                   requested, sched, pid0, C>>

\* self(a, b)
Call(a, b, autocast) ==
    /\ sched.state = "constructed"
    /\ CacheHit(lut_cache, <<a.dtype, a.device>>)
           \/ builds[<<a.dtype, a.device>>] < MaxBuilds
    /\ \E key \in {<<a.dtype, a.device>>},
          out \in {CallOp(sched, lut_cache, a, b, autocast)} :
           /\ lut_cache' = out.cache
           /\ builds' = [k \in Keys |->
                           IF k = key /\ out.built THEN builds[k] + 1 ELSE builds[k]]
           /\ lastOp' = [state |-> out.state, op |-> "call", key |-> key,
                         a |-> a, b |-> b, autocast |-> autocast,
                         before |-> lut_cache, out |-> out]
    /\ UNCHANGED <<sizes, lb, layout, block, trans, lut, locks, nalloc, lastLock,
                   requested, sched, pid0, C>>

\* c.backward(dc) after a call that returned: _matmul.backward with the
\* context that forward saved.
BackwardStep(needs_a, needs_b) ==
    /\ sched.state = "constructed"
    /\ lastOp.state = "returned"
    /\ lastOp.op = "call"
    /\ \E out \in {Backward(sched, lastOp.out.saved[1], lastOp.out.saved[2],
                            lastOp.out.c, lastOp.out.lut, needs_a, needs_b)} :
           lastOp' = [state |-> out.state, op |-> "backward", key |-> lastOp.key,
                      before |-> lut_cache, call |-> lastOp,
                      needs |-> <<needs_a, needs_b>>, out |-> out]
    /\ UNCHANGED <<sizes, lb, layout, block, trans, lut, locks, nalloc, lastLock,
                   requested, sched, lut_cache, builds, pid0, C>>

InitSched ==
    /\ sched = Pending
    /\ lut_cache = <<>>
    /\ builds = <<>>
    /\ lastOp = Pending
    /\ IdleLB /\ IdleLut /\ IdleLocks /\ IdleKernel

NextSched ==
    \/ \E l \in LayoutsOf(SchedShapes), blk \in Blocks, mode \in SchedModes,
          ta \in BOOLEAN, tb \in BOOLEAN : Construct(l, blk, mode, ta, tb)
    \/ /\ lastOp.state = "pending"
       /\ sched.state = "constructed"
       /\ \E sa \in OperandShapes(sched.block), sb \in OperandShapes(sched.block),
             e \in Envs :
              Call(Tensor(e[1], e[3], sa), Tensor(e[2], e[4], sb), e[5])
    \/ \E needs_a \in BOOLEAN, needs_b \in BOOLEAN : BackwardStep(needs_a, needs_b)

SpecSched == InitSched /\ [][NextSched]_vars

(***************************************************************************)
(* Specification SpecCache: make_lut and calls, in any order, on one       *)
(* scheduler                                                               *)
(***************************************************************************)
CacheLayouts ==
    {[shape |-> <<1, 2>>, data |-> <<1, 1>>],
     [shape |-> <<1, 2>>, data |-> <<0, 0>>],
     [shape |-> <<2, 1, 1>>, data |-> <<1, 0>>]}

CacheShapes(B) == {<<1, 2, B, B>>, <<1, 1, B, 2 * B>>}

CacheEnvs ==
    {<<"float16", "float16", "cuda:0", "cuda:0", FALSE>>,
     <<"float16", "float16", "cpu", "cpu", FALSE>>}

NextCache ==
    \/ \E l \in CacheLayouts, mode \in Modes, ta \in BOOLEAN, tb \in BOOLEAN :
           Construct(l, Step, mode, ta, tb)
    \/ \E key \in Keys : MakeLut(key)
    \/ /\ sched.state = "constructed"
       /\ \E sa \in CacheShapes(sched.block), sb \in CacheShapes(sched.block),
             e \in CacheEnvs :
              Call(Tensor(e[1], e[3], sa), Tensor(e[2], e[4], sb), e[5])

SpecCache == InitSched /\ [][NextCache]_vars

(***************************************************************************)
(* Claims about the constructor and the call (checked under SpecSched)     *)
(***************************************************************************)
\* C8: construction raises whenever the mode is not sdd, dsd or dds or the
\* layout has a number of dimensions other than 2 or 3; otherwise it
\* succeeds, a 3-dimensional layout is kept as it is, and a 2-dimensional
\* layout H x W becomes a layout of shape (1, H, W) whose only depth slice
\* holds the given H x W blocks.
C8_ConstructorValidation ==
    sched.state # "pending" =>
        LET g    == sched.args
            nd   == Len(g.layout.shape)
            good == g.mode \in {"sdd", "dsd", "dds"} /\ nd \in {2, 3}
        IN  /\ ~good => sched.state = "raised"
            /\ good =>
                   /\ sched.state = "constructed"
                   /\ Len(sched.spdims) = 3
                   /\ Len(sched.layout) = sched.spdims[1]
                   /\ nd = 3 => sched.spdims = g.layout.shape
                   /\ nd = 2 =>
                          /\ sched.spdims[1] = 1
                          /\ sched.spdims[2] = g.layout.shape[1]
                          /\ sched.spdims[3] = g.layout.shape[2]
                   /\ \A z \in 1..sched.spdims[1], h \in 1..sched.spdims[2],
                         w \in 1..sched.spdims[3] :
                          sched.layout[z][h][w] =
                              g.layout.data[((z - 1) * sched.spdims[2] + (h - 1))
                                                * sched.spdims[3] + w]

\* C8 witness: a scheduler was constructed from a 2-dimensional layout with
\* more than one row, one of whose blocks is populated and one not.
C8_Witness ==
    /\ sched.state = "constructed"
    /\ sched.args.layout.shape = <<2, 1>>
    /\ sched.args.layout.data = <<0, 1>>
    /\ sched.layout = <<<< <<0>>, <<1>> >>>>

\* The operands of the last call by role, and what the layout says about them.
DenseOperand == IF sched.mode = "dds" THEN lastOp.a ELSE lastOp.b

SparseOperand == IF sched.mode = "dds" THEN lastOp.b ELSE lastOp.a

\* The dense operand's reduction dimension: the rows of B (its columns when B
\* is transposed) in dsd, the columns of A (its rows when A is transposed)
\* in dds.
RefDenseDim ==
    IF sched.mode = "dsd" THEN (IF sched.trans_b THEN 0 - 1 ELSE 0 - 2)
    ELSE (IF sched.trans_a THEN 0 - 2 ELSE 0 - 1)

\* The layout axis along which the sparse operand is reduced.
RefLayoutAxis ==
    IF sched.mode = "dsd" THEN (IF sched.trans_a THEN 0 - 2 ELSE 0 - 1)
    ELSE (IF sched.trans_b THEN 0 - 1 ELSE 0 - 2)

RefDenseActual == DenseOperand.shape[Len(DenseOperand.shape) + 1 + RefDenseDim]

RefDenseExpected ==
    sched.args.block *
        sched.args.layout.shape[Len(sched.args.layout.shape) + 1 + RefLayoutAxis]

RefSparseExpected ==
    <<Cardinality({i \in 1..Len(sched.args.layout.data) : sched.args.layout.data[i] = 1}),
      sched.args.block, sched.args.block>>

RefDenseMismatch == RefDenseActual # RefDenseExpected

RefSparseMismatch ==
    LET sh == SparseOperand.shape
    IN  \/ Len(sh) < 3
        \/ \E i \in 1..3 : sh[Len(sh) - 3 + i] # RefSparseExpected[i]

\* The last operation was a call in a dense-output mode with mismatched shapes.
MismatchedCall ==
    /\ lastOp.state # "pending"
    /\ lastOp.op = "call"
    /\ sched.mode \in {"dsd", "dds"}
    /\ RefDenseMismatch \/ RefSparseMismatch

\* The error is the shape error for the first mismatch, with the expected
\* and the actual value.
NamesExpectedAndActual(e) ==
    IF RefDenseMismatch
    THEN /\ e.what = "dense_inner"
         /\ e.expected = RefDenseExpected
         /\ e.got = RefDenseActual
    ELSE /\ e.what = "sparse_shape"
         /\ e.expected = RefSparseExpected
         /\ e.got = SparseOperand.shape

\* Some depth slice of the layout has no populated block.
HasEmptySlice ==
    \E z \in 1..Len(sched.layout) :
        \A h \in 1..Len(sched.layout[z]) :
            \A w \in 1..Len(sched.layout[z][h]) : sched.layout[z][h][w] = 0

\* C7 as stated: in dsd and dds, for every trans_a and trans_b, a call whose
\* dense operand's size along its reduction dimension differs from block
\* times the layout extent along the sparse operand's reduction axis, or
\* whose sparse operand's trailing shape differs from (populated blocks,
\* block, block), fails with an error naming the expected and the actual
\* value, and no kernel is dispatched.
C7_ShapeErrorNamesValues ==
    MismatchedCall =>
        /\ lastOp.state = "raised"
        /\ ~lastOp.out.dispatched
        /\ NamesExpectedAndActual(lastOp.out.error)

\* C7 amended: such a call always fails and dispatches no kernel; the error
\* is the shape error naming the expected and the actual value unless an
\* earlier step of the call fails first: the LUT construction (exactly when
\* a depth slice of the layout has no populated block), then the
\* same-device check, the CUDA check and, with autocast off, the dtype check.
C7_ShapeErrorUnlessEarlierFailure ==
    MismatchedCall =>
        /\ lastOp.state = "raised"
        /\ ~lastOp.out.dispatched
        /\ (lastOp.out.stage = "make_lut") <=> HasEmptySlice
        /\ lastOp.out.stage # "make_lut" =>
               /\ lastOp.out.stage = "validate"
               /\ IF lastOp.a.device # lastOp.b.device
                  THEN lastOp.out.error.what = "device"
                  ELSE IF lastOp.a.device = "cpu"
                  THEN lastOp.out.error.what = "not_cuda"
                  ELSE IF ~lastOp.autocast /\ lastOp.a.dtype # lastOp.b.dtype
                  THEN lastOp.out.error.what = "dtype"
                  ELSE NamesExpectedAndActual(lastOp.out.error)

\* C7 witness: a dsd call with A transposed whose dense operand has the
\* expected inner size but whose sparse operand has the wrong trailing
\* shape was rejected by the shape check.
C7_Witness ==
    /\ MismatchedCall
    /\ sched.mode = "dsd" /\ sched.trans_a /\ ~sched.trans_b
    /\ sched.args.layout.shape = <<1, 2>>
    /\ ~RefDenseMismatch
    /\ lastOp.out.stage = "validate"
    /\ lastOp.out.error.what = "sparse_shape"

(***************************************************************************)
(* Claims about the LUT cache (checked under SpecCache)                    *)
(***************************************************************************)
\* C9 as stated: over any sequence of make_lut and call operations on one
\* scheduler the builders run at most once per (dtype, device) key; the
\* first use of a key builds and stores the twelve-field tuple; a later
\* make_lut with that key runs no builder and returns exactly the stored
\* tuple; the entries of the other keys are left as they were.
C9_BuildOncePerKey ==
    /\ sched.state = "constructed" => \A k \in Keys : builds[k] <= 1
    /\ lastOp.state # "pending" =>
           LET k == lastOp.key
               b == lastOp.before
           IN  /\ ~b[k].present =>
                      /\ lastOp.out.built
                      /\ lut_cache[k].present
                      /\ Len(lut_cache[k].value) = 12
               /\ b[k].present =>
                      /\ ~lastOp.out.built
                      /\ lut_cache[k] = b[k]
                      /\ lastOp.op = "make_lut" =>
                             /\ lastOp.state = "returned"
                             /\ lastOp.out.value = b[k].value
               /\ \A j \in Keys \ {k} : lut_cache[j] = b[j]

(***************************************************************************)
(* Claims about backward (checked under SpecSched)                         *)
(***************************************************************************)
\* The mode whose role symbols 0 and 1 (SwapLeft) and 0 and 2 (SwapRight)
\* are exchanged, as a table.
SwapLeft == [sdd |-> "dsd", dsd |-> "sdd", dds |-> "dds"]

SwapRight == [sdd |-> "dds", dsd |-> "dsd", dds |-> "sdd"]

\* The builder a kernel's table must come from: sdd_lut returns lists of
\* tables, make_dxx_lut one table.
KindFor(kernel) == IF kernel = "sdd" THEN "list" ELSE "tensor"

Computed(g) == g.state # "none"

\* The mode a gradient's kernel was selected by: the kernel that ran, or no
\* mode when the selection raised KeyError.
KernelOf(g) ==
    IF g.state = "returned" THEN g.kernel
    ELSE IF g.error.what = "KeyError" THEN g.error.mode
    ELSE "sdd"

\* C11: for every forward mode, backward runs the left gradient with the
\* kernel of the mode whose symbols 0 and 1 are swapped and the right
\* gradient with the kernel of the mode whose symbols 0 and 2 are swapped;
\* both are valid modes, each kernel is given the table make_lut built for
\* that gradient, and that table comes from sdd_lut when the kernel is sdd
\* and from make_dxx_lut when it is dsd or dds.
C11_GradientKernelAndLut ==
    (lastOp.state # "pending" /\ lastOp.op = "backward") =>
        LET m     == sched.mode
            value == lastOp.call.out.lut
            da    == lastOp.out.da
            db    == lastOp.out.db
        IN  /\ Computed(da) =>
                   /\ KernelOf(da) = SwapLeft[m]
                   /\ KernelOf(da) \in {"sdd", "dsd", "dds"}
                   /\ DaQuad(value)[1].type = KindFor(SwapLeft[m])
                   /\ da.state = "returned" => da.lut = DaQuad(value)
            /\ Computed(db) =>
                   /\ KernelOf(db) = SwapRight[m]
                   /\ KernelOf(db) \in {"sdd", "dsd", "dds"}
                   /\ DbQuad(value)[1].type = KindFor(SwapRight[m])
                   /\ db.state = "returned" => db.lut = DbQuad(value)
            /\ lastOp.needs[1] <=> Computed(da)
            /\ (lastOp.needs[2] /\ da.state # "raised") <=> Computed(db)

\* C11 witness: backward of a dsd call computed both gradients, the left one
\* with the sdd kernel and a table of sdd_lut, the right one with the dsd
\* kernel and a table of make_dxx_lut.
C11_Witness ==
    /\ lastOp.state = "returned"
    /\ lastOp.op = "backward"
    /\ sched.mode = "dsd"
    /\ lastOp.out.da.state = "returned" /\ lastOp.out.da.kernel = "sdd"
    /\ lastOp.out.da.lut[1].type = "list"
    /\ lastOp.out.db.state = "returned" /\ lastOp.out.db.kernel = "dsd"
    /\ lastOp.out.db.lut[1].type = "tensor"

\* The orientation the forward rule of make_lut derives for a dense-output
\* kernel from the transpose arguments it is run with (lines 563, 565).
RuleTrans(g) == IF g.kernel = "dsd" THEN ~g.trans_a ELSE g.trans_b

\* A gradient that ran a dense-output kernel carries a table built by
\* make_dxx_lut with the flag `built` that equals the orientation its
\* transpose arguments call for.
OrientationAgrees(g, built) ==
    (g.state = "returned" /\ g.kernel \in {"dsd", "dds"}) =>
        /\ built = RuleTrans(g)
        /\ g.lut = Quad(make_dxx_lut(sched.layout, sched.block, Step, RuleTrans(g),
                                     lastOp.key[2]))

\* C14: for every forward mode, trans_a and trans_b, the orientation flag
\* make_lut builds a gradient's dense-output table with equals the flag the
\* forward rule derives from the transpose arguments backward passes to that
\* gradient's kernel (dsd: not trans_a argument, dds: trans_b argument), and
\* the kernel is given the table built with that flag.
C14_GradientOrientation ==
    (lastOp.state # "pending" /\ lastOp.op = "backward") =>
        /\ OrientationAgrees(lastOp.out.da,
                             DaTrans(sched.mode, sched.trans_a, sched.trans_b))
        /\ OrientationAgrees(lastOp.out.db,
                             DbTrans(sched.mode, sched.trans_a, sched.trans_b))

\* C14 witness: backward of a dds call with B transposed, on a layout whose
\* two orientations give different tables, ran the dds kernel for the left
\* gradient.
C14_Witness ==
    /\ lastOp.state = "returned"
    /\ lastOp.op = "backward"
    /\ sched.mode = "dds" /\ sched.trans_b /\ ~sched.trans_a
    /\ sched.args.layout.shape = <<1, 2>>
    /\ lastOp.out.da.state = "returned" /\ lastOp.out.da.kernel = "dds"
    /\ lastOp.out.da.trans_b = FALSE
    /\ make_dxx_lut(sched.layout, sched.block, Step, TRUE, "cuda:0")
           # make_dxx_lut(sched.layout, sched.block, Step, FALSE, "cuda:0")

(***************************************************************************)
(* _dsd_kernel (matmul.py 139-206) and _dds_kernel (238-309)               *)
(*                                                                         *)
(* Both kernels read the table the same way: the header fields 0..3 of     *)
(* row pid0, the pair at the header's offset, and one more pair per trip   *)
(* of the inner loop. Neither reads the lock id or max_tasks fields, and   *)
(* both write their tile with a plain tl.store.                            *)
(***************************************************************************)
\* TILE_K = 16 (dsd_matmul, dds_matmul)
TILE_K == 16

InTable(tab, i) == 0 <= i /\ i < Len(tab)

\* tl.load(lut + i). A load outside the table is undefined; the programs
\* below record it (fault) and KernelOutcomes leaves their result open.
Load(tab, i) == IF InTable(tab, i) THEN tab[i + 1] ELSE 0

\* The number of trips of: for k in range(AS1, 0, -TILE_K)
Trips(AS1) == IF AS1 <= 0 THEN 0 ELSE cdiv(AS1, TILE_K)

\* The inner loop with n trips left. dense is the reduction-axis offset the
\* dense operand is read at (start_bk / start_ak plus the increments),
\* sparse the element offset into the sparse operand's storage (off_a /
\* off_b plus the increments); acc collects the pairs given to tl.dot.
RECURSIVE InnerLoop(_, _, _, _, _, _, _)
InnerLoop(tab, n, pinc, dense, sparse, acc, reads) ==
    IF n = 0 THEN [acc |-> acc, reads |-> reads]
    ELSE InnerLoop(tab, n - 1, pinc + 2,
                   dense + Load(tab, pinc + 2), sparse + Load(tab, pinc + 3),
                   Append(acc, <<dense, sparse>>),
                   reads \cup {pinc + 2, pinc + 3})

\* The prologue once offset, AS1 have been loaded from the header.
Prologue(tab, offset, AS1, BLOCK, header) ==
    InnerLoop(tab, Trips(AS1), offset,
              Load(tab, offset), Load(tab, offset + 1) * BLOCK * BLOCK,
              <<>>, {header, header + 1, header + 2, header + 3, offset, offset + 1})

\* Variant of Program: the loop trusts the segment field to count trips.
ProgramTripPerUnit(tab, pid, BLOCK) ==
    [run  |-> InnerLoop(tab, Load(tab, pid * 6 + 1), Load(tab, pid * 6),
                        Load(tab, Load(tab, pid * 6)),
                        Load(tab, Load(tab, pid * 6) + 1) * BLOCK * BLOCK, <<>>,
                        {pid * 6, pid * 6 + 1, pid * 6 + 2, pid * 6 + 3,
                         Load(tab, pid * 6), Load(tab, pid * 6) + 1}),
     tile |-> <<Load(tab, pid * 6 + 3), Load(tab, pid * 6 + 2)>>]

\* Program pid of the grid, up to its store: the accumulator, the tile
\* <<off_h, column>> it will store to, and the table indices it loaded.
Program(tab, pid, BLOCK) ==
    [run  |-> Prologue(tab, Load(tab, pid * 6), Load(tab, pid * 6 + 1), BLOCK, pid * 6),
     tile |-> <<Load(tab, pid * 6 + 3), Load(tab, pid * 6 + 2)>>]

Faulted(tab, reads) == \E i \in reads : ~InTable(tab, i)

\* What a program can have computed when its loop is over: what the table
\* says, or, after a load outside the table, either nothing (the launch
\* fails) or any accumulator (represented by the empty one).
KernelOutcomes(tab, pid, BLOCK) ==
    LET p == Program(tab, pid, BLOCK)
    IN  IF Faulted(tab, p.run.reads)
        THEN {[state |-> "fault", acc |-> <<>>, tile |-> p.tile,
               reads |-> p.run.reads],
              [state |-> "walked", acc |-> p.run.acc, tile |-> p.tile,
               reads |-> p.run.reads],
              [state |-> "walked", acc |-> <<>>, tile |-> p.tile,
               reads |-> p.run.reads]}
        ELSE {[state |-> "walked", acc |-> p.run.acc, tile |-> p.tile,
               reads |-> p.run.reads]}

\* The tiles of the output: one per depth slice and output column (the rows
\* of the layout when trans, its columns otherwise).
Tiles(L, tr) == (0..(Depth(L) - 1)) \X (0..((IF tr THEN Rows(L) ELSE Cols(L)) - 1))

\* c = torch.empty(...): a tile nobody has stored to holds no defined value.
EmptyTile == [written |-> FALSE, value |-> <<>>, writers |-> {}]

Ready == [state |-> "ready", acc |-> <<>>, tile |-> <<>>, reads |-> {}]

(***************************************************************************)
(* Specification SpecKernel: a table is built and a grid of programs, one  *)
(* per header row, runs over it in any order                               *)
(***************************************************************************)
\* Layouts of at most MaxCells entries (MaxCells >= 4 = the least seg_min).
MaxCells == 4

\* One full column of MaxCells blocks: with trans = False a reduction of
\* seg_min blocks or more, which load_balance gives a single segment.
FullColumn == LayoutOf(1, MaxCells, 1, [i \in 1..MaxCells |-> i])

InitKernel ==
    /\ block \in Blocks
    /\ trans \in BOOLEAN
    /\ \/ \E Z \in 1..MaxZ, H \in 1..MaxH, W \in 1..MaxW :
              /\ Z * H * W <= MaxCells
              /\ \E P \in Populated(Z * H * W) : layout = LayoutOf(Z, H, W, P)
       \/ layout = FullColumn /\ ~trans
    /\ lut = Pending
    /\ IdleLB /\ IdleLocks /\ IdleSched /\ IdleKernel

\* dsd_matmul / dds_matmul: allocate the output, launch grid = [width, ...].
Launch ==
    /\ lut.state = "returned"
    /\ pid0 = <<>>
    /\ pid0' = [k \in 0..(lut.width - 1) |-> Ready]
    /\ C' = [t \in Tiles(layout, trans) |-> EmptyTile]
    /\ UNCHANGED <<sizes, lb, layout, block, trans, lut, locks, nalloc, lastLock,
                   requested, sched, lut_cache, builds, lastOp>>

\* Program k runs its prologue and inner loop.
Walk(k) ==
    /\ pid0 # <<>>
    /\ k \in DOMAIN pid0
    /\ pid0[k].state = "ready"
    /\ \E out \in KernelOutcomes(lut.lut, k, block) :
           pid0' = [j \in DOMAIN pid0 |-> IF j = k THEN out ELSE pid0[j]]
    /\ UNCHANGED <<sizes, lb, layout, block, trans, lut, locks, nalloc, lastLock,
                   requested, sched, lut_cache, builds, lastOp, C>>

\* Program k stores its accumulator: tl.store(pc, c, ...), no lock taken.
Store(k) ==
    /\ pid0 # <<>>
    /\ k \in DOMAIN pid0
    /\ pid0[k].state = "walked"
    /\ pid0[k].tile \in DOMAIN C
    /\ C' = [t \in DOMAIN C |->
                IF t = pid0[k].tile
                THEN [written |-> TRUE, value |-> pid0[k].acc,
                      writers |-> C[t].writers \cup {k}]
                ELSE C[t]]
    /\ pid0' = [j \in DOMAIN pid0 |->
                   IF j = k THEN [state |-> "done", acc |-> pid0[k].acc,
                                  tile |-> pid0[k].tile, reads |-> pid0[k].reads]
                   ELSE pid0[j]]
    /\ UNCHANGED <<sizes, lb, layout, block, trans, lut, locks, nalloc, lastLock,
                   requested, sched, lut_cache, builds, lastOp>>

NextKernel ==
    \/ MakeDxxLut
    \/ Launch
    \/ \E k \in DOMAIN pid0 : Walk(k)
    \/ \E k \in DOMAIN pid0 : Store(k)

SpecKernel == InitKernel /\ [][NextKernel]_vars

(***************************************************************************)
(* Claims about the kernels' walk of the table (checked under SpecKernel)  *)
(***************************************************************************)
\* The reduction-axis indices of the populated blocks of output column col
\* of depth slice z, ascending: the layout's columns w when trans (col is a
\* row of the layout), its rows h otherwise.
ReductionIndices(L, tr, z, col) ==
    IF tr
    THEN SelectSeq([n \in 1..Cols(L) |-> n - 1],
                   LAMBDA r : L[z + 1][col + 1][r + 1] > 0)
    ELSE SelectSeq([n \in 1..Rows(L) |-> n - 1],
                   LAMBDA r : L[z + 1][r + 1][col + 1] > 0)

\* The row-major rank of the populated block of column col with reduction
\* index r.
RankOf(L, tr, z, col, r) ==
    IF tr THEN BlockRank(L, z, col, r) ELSE BlockRank(L, z, r, col)

\* The distance in the sparse operand's storage between two reduction steps
\* of one block.
Fine(blk, tr) == IF tr THEN Step ELSE Step * blk

\* The positions to visit for one block: dense offsets r*block + j*step and
\* the storage positions of the block of that rank, j = 0..block/step - 1.
BlockVisits(L, tr, blk, z, col, r) ==
    [j \in 1..(blk \div Step) |->
        <<r * blk + (j - 1) * Step,
          RankOf(L, tr, z, col, r) * blk * blk + (j - 1) * Fine(blk, tr)>>]

\* The number of blocks of the segment of task k, and the number of blocks
\* of its (depth, column) that belong to the tasks before it.
SegBlocks(tab, k, blk) == Hdr(tab, k, 1) \div blk

SegFirst(tab, k, blk) ==
    SeqSum([n \in 1..k |->
        IF Hdr(tab, n - 1, 3) = Hdr(tab, k, 3) /\ Hdr(tab, n - 1, 2) = Hdr(tab, k, 2)
        THEN SegBlocks(tab, n - 1, blk) ELSE 0])

\* The positions task k is to visit: those of the blocks of its segment, in
\* ascending reduction-axis order.
ExpectedVisits(L, tr, blk, tab, k) ==
    Flatten([i \in 1..SegBlocks(tab, k, blk) |->
        BlockVisits(L, tr, blk, Hdr(tab, k, 3), Hdr(tab, k, 2),
                    ReductionIndices(L, tr, Hdr(tab, k, 3), Hdr(tab, k, 2))
                        [SegFirst(tab, k, blk) + i])])

SegmentInColumn(L, tr, blk, tab, k) ==
    SegFirst(tab, k, blk) + SegBlocks(tab, k, blk)
        <= Len(ReductionIndices(L, tr, Hdr(tab, k, 3), Hdr(tab, k, 2)))

HasWalked(k) == pid0[k].state \in {"walked", "done"}

\* C13: a program that has walked its task of the make_dxx_lut table has
\* used, in ascending reduction-axis order and for exactly the populated
\* blocks of its segment of its (depth, column), the dense offsets
\* r*block + j*step (j = 0..block/step - 1) and the sparse storage positions
\* of the block whose index is the block's row-major rank among the populated
\* layout entries, for any number of depth slices and both values of trans.
C13_WalkVisitsSegmentBlocks ==
    \A k \in DOMAIN pid0 :
        HasWalked(k) =>
            /\ SegmentInColumn(layout, trans, block, lut.lut, k)
            /\ pid0[k].acc = ExpectedVisits(layout, trans, block, lut.lut, k)

\* A program of a later depth slice has walked a segment of two blocks of
\* two steps each whose ranks are not consecutive (trans = False).
C13_Witness ==
    \E k \in DOMAIN pid0 :
        /\ HasWalked(k)
        /\ ~trans
        /\ block = 2 * Step
        /\ Len(pid0[k].acc) = 4
        /\ pid0[k].acc[3][2] - pid0[k].acc[1][2] > block * block

\* The number of populated blocks of a layout.
NumBlocks(L) == SeqSum([z \in 1..Depth(L) |-> SliceSum(L, z - 1)])

EverySlicePopulated(L) == \A z \in 1..Depth(L) : SliceSum(L, z - 1) > 0

\* The index of the first increment pair (the end of the header) and of the
\* trailing pair of zeros.
IncsStart(res) == 6 * res.width

Sentinel(res) == Len(res.lut) - 2

\* The header's offset of task k points at the first increment pair of a
\* block.
OffsetAtBlock(res, k, div) ==
    /\ IncsStart(res) <= Hdr(res.lut, k, 0)
    /\ Hdr(res.lut, k, 0) + 2 * div <= Sentinel(res)
    /\ (Hdr(res.lut, k, 0) - IncsStart(res)) % (2 * div) = 0

\* The last pair a program that walked task k has loaded.
LastPair(res, k) == Hdr(res.lut, k, 0) + 2 * Trips(Hdr(res.lut, k, 1))

\* C15: for a layout with a populated block in every depth slice, the table
\* of make_dxx_lut has 6*width + 2*(block/step)*(populated blocks) + 2
\* entries, and every index a program loads lies inside it: the header
\* fields at 6*task, an offset that points at an increment pair of a block
\* (for zero-size segments that of the last block at most), and every pair
\* of the walk, the one loaded after the last reduction step included, which
\* for a segment ending at the last block is the trailing pair of zeros.
C15_TableLengthAndReadsInRange ==
    (EverySlicePopulated(layout) /\ lut.state # "pending") =>
        /\ lut.state = "returned"
        /\ Len(lut.lut) = 6 * lut.width + 2 * (block \div Step) * NumBlocks(layout) + 2
        /\ lut.lut[Sentinel(lut) + 1] = 0 /\ lut.lut[Sentinel(lut) + 2] = 0
        /\ \A k \in DOMAIN pid0 :
               /\ pid0[k].state # "fault"
               /\ HasWalked(k) =>
                      /\ \A i \in pid0[k].reads : InTable(lut.lut, i)
                      /\ {6 * k + f : f \in 0..3} \subseteq pid0[k].reads
                      /\ OffsetAtBlock(lut, k, block \div Step)
                      /\ {LastPair(lut, k), LastPair(lut, k) + 1} \subseteq pid0[k].reads
                      /\ LastPair(lut, k) <= Sentinel(lut)

\* Two programs have walked: one whose segment ends at the last block and
\* that loaded the trailing pair of zeros after its last step, and one of a
\* zero-size segment placed after the last block, whose offset is that of
\* the last block.
C15_Witness ==
    /\ lut.state = "returned"
    /\ \E k \in DOMAIN pid0 :
           /\ HasWalked(k)
           /\ Hdr(lut.lut, k, 1) > 0
           /\ LastPair(lut, k) = Sentinel(lut)
           /\ Sentinel(lut) + 1 \in pid0[k].reads
    /\ \E k \in DOMAIN pid0 :
           /\ HasWalked(k)
           /\ Hdr(lut.lut, k, 1) = 0
           /\ k = lut.width - 1
           /\ Hdr(lut.lut, k, 0) + 2 * (block \div Step) = Sentinel(lut)
           /\ block = 2 * Step

(***************************************************************************)
(* Claims about the programs' stores (checked under SpecKernel)            *)
(***************************************************************************)
\* The complete reduction of output tile (z, col): the positions of all
\* populated blocks of that column, the empty sum when there are none.
CompleteReduction(L, tr, blk, z, col) ==
    Flatten([i \in 1..Len(ReductionIndices(L, tr, z, col)) |->
        BlockVisits(L, tr, blk, z, col, ReductionIndices(L, tr, z, col)[i])])

AllStored == pid0 # <<>> /\ \A k \in DOMAIN pid0 : pid0[k].state = "done"

\* Two different tasks without a lock (lock id 0) address the same tile.
UnlockedShareTile(res) ==
    \E j \in 0..(res.width - 1), k \in 0..(res.width - 1) :
        /\ j # k
        /\ Hdr(res.lut, j, 4) = 0 /\ Hdr(res.lut, k, 4) = 0
        /\ Hdr(res.lut, j, 3) = Hdr(res.lut, k, 3)
        /\ Hdr(res.lut, j, 2) = Hdr(res.lut, k, 2)

\* C12 as stated: whatever the order in which the programs of a make_dxx_lut
\* table ran, once all have stored, every output tile (depth, column) has
\* been written by at least one program and holds the complete reduction
\* over the populated blocks of its column (zero when there are none), and
\* no two tasks with lock id 0 address the same tile.
C12_TilesHoldCompleteReduction ==
    AllStored =>
        /\ \A t \in DOMAIN C :
               /\ C[t].written
               /\ C[t].writers # {}
               /\ C[t].value = CompleteReduction(layout, trans, block, t[1], t[2])
        /\ ~UnlockedShareTile(lut)

====
